---- MODULE Spec2Model ----
(***************************************************************************)
(* Decoder.forward of rl4co/models/zoo/am/decoder.py: the autoregressive   *)
(* decode loop of the attention model, with the multi-start seeding step,  *)
(* the precomputed cache and the per-step scoring of _get_log_p.           *)
(*                                                                         *)
(* Tensors are modelled by their index structure: a batch is a sequence    *)
(* over the flat batch index, an unbatchified tensor is a sequence (over   *)
(* the instance index) of sequences (over the start index).  The numeric   *)
(* kernel is abstracted to which entries are -inf, finite or zero; every   *)
(* row of a log-probability tensor carries the instance and the partial    *)
(* tour of the trajectory whose context produced it.                       *)
(***************************************************************************)
EXTENDS Integers, Sequences, FiniteSets, TLC

VARIABLES
    pc,              \* position in forward
    env_name,        \* self.env: which environment the decoder was built for
    decode_type,     \* argument decode_type
    num_starts_arg,  \* argument num_starts: <<>> is None, <<k>> the integer k
    calc_reward,     \* argument calc_reward
    embeddings,      \* argument embeddings, one entry per instance
    td,              \* the instance-batch state, one record per trajectory
    cached_embeds,   \* <<>> before _precompute, <<cache>> after
    outputs,         \* list of per-step log_p tensors
    actions,         \* list of per-step action tensors
    log_p,           \* local log_p
    mask,            \* local mask
    action,          \* local action
    ret,             \* <<>>, or <<[outputs, actions]>> after torch.stack
    td_entry,        \* history: the state as it was passed to forward
    trace            \* history: the calls made and the iterations completed

vars == <<pc, env_name, decode_type, num_starts_arg, calc_reward, embeddings, td,
          cached_embeds, outputs, actions, log_p, mask, action, ret, td_entry, trace>>

\* the arguments of the call and the decoder's environment: never assigned
args == <<env_name, decode_type, num_starts_arg, calc_reward, embeddings, td_entry>>

(***************************************************************************)
(* Bounds of the model.                                                    *)
(***************************************************************************)
MaxBatch == 2
MaxStarts == 3

\* the main loop is followed until the trace has MaxSteps entries
MaxSteps == 5

\* the calls of one forward in which the policy is followed returning for a
\* row without a selectable node; beyond it only its raising is followed
MaxUnchecked == 1

(***************************************************************************)
(* The toy environment: NumNodes nodes, node 0 first.                      *)
(***************************************************************************)
NumNodes == 3

Nodes == 0 .. (NumNodes - 1)

NoAction == 0 - 1

DecodeTypes == {"sampling", "greedy", "multistart_sampling", "multistart_greedy"}

\* "multistart" in decode_type
HasMultistart(dt) == dt \in {"multistart_sampling", "multistart_greedy"}

EnvNames == {"toy", "toy_depot", "toy_deadend", "toy_endless"}

\* an entry of the history
Call(op, val) == [op |-> op, val |-> val]

All(done) == \A i \in DOMAIN done : done[i]

\* legality of node n for a trajectory that has visited v (true = legal).
\* "toy": node 0 is the only legal node until visited, then the unvisited
\* ones; "toy_depot": the same, and node 0 stays legal once all are visited;
\* "toy_deadend": as "toy", but node 2 is closed once node 1 is visited, an
\* environment that can leave a trajectory that is not done without a legal
\* node; "toy_endless": node 0 is always the only legal node and done is
\* never set.
ActionMask(name, v) ==
    [n \in Nodes |->
        IF name = "toy_endless" THEN n = 0
        ELSE \/ /\ n \notin v
                /\ n = 0 \/ 0 \in v
                /\ ~(name = "toy_deadend" /\ n = 2 /\ 1 \in v)
             \/ name = "toy_depot" /\ v = Nodes /\ n = 0]

\* the done flag of a trajectory that has visited v
Done(name, v) == v = Nodes /\ name # "toy_endless"

\* one trajectory of the state, as the environment presents it
EnvState(name, inst, v, a) ==
    [inst |-> inst, visited |-> v, action_mask |-> ActionMask(name, v),
     done |-> Done(name, v), action |-> a, reward |-> <<>>]

\* env.step(td)["next"]: applies the action set in every trajectory
EnvStep(name, t) ==
    [i \in DOMAIN t |->
        EnvState(name, t[i].inst, t[i].visited \cup {t[i].action}, t[i].action)]

\* env.get_reward(td, actions): one value per trajectory, from its final
\* state and its row of the stacked actions
GetReward(t, acts) == [i \in DOMAIN t |-> <<t[i].visited, acts[i]>>]

\* the partial tours the environment can present on entry
EntryTours == {{}, {0, 1}, {0, 1, 2}}

(***************************************************************************)
(* rl4co.utils.ops                                                         *)
(***************************************************************************)
\* batchify(x, repeats): repeats copies of the batch, one after the other
Batchify(x, repeats) ==
    IF repeats > 1
    THEN [i \in 1 .. (repeats * Len(x)) |-> x[((i - 1) % Len(x)) + 1]]
    ELSE x

\* unbatchify(x, repeats): [repeats * b, ...] -> [b, repeats, ...]
Unbatchify(x, repeats) ==
    IF repeats > 1
    THEN LET b == Len(x) \div repeats
         IN  [j \in 1 .. b |-> [s \in 1 .. repeats |-> x[(s - 1) * b + j]]]
    ELSE x

\* select_start_nodes(td, num_starts, env): start s of every instance begins
\* at node s, laid out as batchify lays the batch out
SelectStartNodes(t, k) ==
    [i \in 1 .. (k * Len(t)) |-> ((i - 1) \div Len(t)) % NumNodes]

(***************************************************************************)
(* forward, lines 69-73                                                    *)
(***************************************************************************)
\* num_starts = 0 if num_starts is None else num_starts
NumStartsOf(arg) == IF arg = <<>> THEN 0 ELSE arg[1]

num_starts == NumStartsOf(num_starts_arg)

\* the assert written with num_starts < 1: num_starts = 1 is let through
AssertOkOffByOne(dt, k) == ~(HasMultistart(dt) /\ k < 1)

\* the condition of the assert of line 71
AssertOk(dt, k) == ~(HasMultistart(dt) /\ k <= 1)

\* the if of line 83 written with the flag alone
SeedCondFlagOnly(dt, k) == HasMultistart(dt)

\* the condition of the if of line 83
SeedCond(dt, k) == k > 1 \/ HasMultistart(dt)

(***************************************************************************)
(* _precompute, lines 118-142                                              *)
(***************************************************************************)
Precompute(emb, k) ==
    [node_embeddings |-> emb,
     graph_context |->
        Unbatchify(Batchify([j \in DOMAIN emb |-> <<"ctx", emb[j]>>], k), k),
     glimpse_key |-> [j \in DOMAIN emb |-> <<"gk", emb[j]>>],
     glimpse_val |-> [j \in DOMAIN emb |-> <<"gv", emb[j]>>],
     logit_key |-> [j \in DOMAIN emb |-> <<"lk", emb[j]>>]]

(***************************************************************************)
(* _get_log_p, lines 144-176                                               *)
(***************************************************************************)
\* the mask without the negation: true = legal
MaskRowNoNeg(tr) == [n \in Nodes |-> tr.action_mask[n]]

\* mask = ~td_unbatch["action_mask"], for one trajectory
MaskRow(tr) == [n \in Nodes |-> ~tr.action_mask[n]]

\* the masked log-probabilities of the Scoring/Attention Unit for one row:
\* -inf where masked.  A row with every node masked carries no distribution;
\* what the unit and the policy do with it is left open (MayRaise).
LogitAttention(m) == [n \in Nodes |-> IF m[n] THEN "neginf" ELSE "fin"]

\* the row of log_p for one trajectory (lines 150-170): logit_attention on
\* the query of that trajectory's context and graph context, and its mask
LogPRow(tr, gctx, m) ==
    [inst |-> tr.inst, tour |-> tr.visited, gctx |-> gctx,
     val |-> LogitAttention(m)]

\* rearrange(x, "b s l -> (b s) l"): the batch-major fold
RearrangeBatchMajor(x) ==
    LET b == Len(x)
        s == Len(x[1])
    IN  [i \in 1 .. (s * b) |-> x[((i - 1) \div s) + 1][((i - 1) % s) + 1]]

\* rearrange(x, "b s l -> (s b) l")
Rearrange(x) ==
    LET b == Len(x)
        s == Len(x[1])
    IN  [i \in 1 .. (s * b) |-> x[((i - 1) % b) + 1][((i - 1) \div b) + 1]]

\* whether _get_log_p folds the starts axis back (lines 174-175)
Folds(k) == k > 1

\* the mask of every trajectory in the layout of td_unbatch (line 165)
MaskUnbatch(t, k) ==
    LET tu == Unbatchify(t, k)
    IN  IF k > 1
        THEN [j \in DOMAIN tu |-> [s \in DOMAIN tu[j] |-> MaskRow(tu[j][s])]]
        ELSE [j \in DOMAIN tu |-> MaskRow(tu[j])]

\* log_p in the layout of td_unbatch (lines 148-170)
LogPUnbatch(cached, t, k) ==
    LET tu == Unbatchify(t, k)
        m  == MaskUnbatch(t, k)
    IN  IF k > 1
        THEN [j \in DOMAIN tu |-> [s \in DOMAIN tu[j] |->
                 LogPRow(tu[j][s], cached.graph_context[j][s], m[j][s])]]
        ELSE [j \in DOMAIN tu |->
                 LogPRow(tu[j], cached.graph_context[j], m[j])]

\* _get_log_p(cached, td, softmax_temp, num_starts): <<log_p, mask>>
GetLogP(cached, t, k) ==
    <<IF Folds(k) THEN Rearrange(LogPUnbatch(cached, t, k))
                  ELSE LogPUnbatch(cached, t, k),
      IF Folds(k) THEN Rearrange(MaskUnbatch(t, k))
                  ELSE MaskUnbatch(t, k)>>

(***************************************************************************)
(* rl4co.models.nn.utils.decode_probs                                      *)
(***************************************************************************)
\* log_p.exp(), entrywise
Exp(v) == IF v = "neginf" THEN "p0" ELSE IF v = "zero" THEN "p1" ELSE "pos"

\* the nodes the policy may return for one row: positive probability, unmasked
Selectable(lp, m) == {n \in Nodes : Exp(lp.val[n]) # "p0" /\ ~m[n]}

\* the nodes the policy may return for one row.  For a row without a
\* selectable node nothing is prescribed; if the policy returns for such a
\* row, the model follows the first node
Returnable(lp, m) == IF Selectable(lp, m) = {} THEN {0} ELSE Selectable(lp, m)

\* the action tensors over rows 1..n, one returnable node per row
RECURSIVE Selections(_, _, _)
Selections(lp, m, n) ==
    IF n = 0
    THEN {<<>>}
    ELSE {Append(a, x) : a \in Selections(lp, m, n - 1), x \in Returnable(lp[n], m[n])}

\* the action tensors decode_probs may return
DecodeProbs(lp, m) == Selections(lp, m, Len(lp))

\* logit_attention (inside line 100) and decode_probs (line 103) may raise
\* instead of returning: only for a row without a selectable node is
\* neither outcome excluded
MayRaise(lp, m) == {i \in DOMAIN lp : Selectable(lp[i], m[i]) = {}} # {}

(***************************************************************************)
(* torch                                                                   *)
(***************************************************************************)
\* torch.stack(xs, 1): result[i][t] = xs[t][i]
Stack(xs) == [i \in DOMAIN xs[1] |-> [t \in DOMAIN xs |-> xs[t][i]]]

\* torch.zeros_like(td["action_mask"]), one row per trajectory
ZerosLike(t) ==
    [i \in DOMAIN t |->
        [inst |-> 0, tour |-> {}, gctx |-> <<>>, val |-> [n \in Nodes |-> "zero"]]]

\* setting the action and also striking the chosen node from action_mask
SetActionAndMask(t, a) ==
    [i \in DOMAIN t |->
        [t[i] EXCEPT !.action = a[i],
                     !.action_mask = [n \in Nodes |-> @[n] /\ n # a[i]]]]

\* setting the action only in the trajectories that are not done
SetActionActiveOnly(t, a) ==
    [i \in DOMAIN t |-> IF t[i].done THEN t[i] ELSE [t[i] EXCEPT !.action = a[i]]]

\* td.set(key, value) for the two keys forward sets
SetAction(t, a) == [i \in DOMAIN t |-> [t[i] EXCEPT !.action = a[i]]]

SetReward(t, r) == [i \in DOMAIN t |-> [t[i] EXCEPT !.reward = <<r[i]>>]]

(***************************************************************************)
(* The state before forward is called.                                     *)
(***************************************************************************)
Init ==
    /\ pc = "assert"
    /\ env_name \in EnvNames
    /\ decode_type \in DecodeTypes
    /\ num_starts_arg \in {<<>>} \cup {<<k>> : k \in 0 .. MaxStarts}
    /\ calc_reward \in BOOLEAN
    /\ \E b \in 1 .. MaxBatch :
          /\ embeddings = [j \in 1 .. b |-> <<"emb", j>>]
          /\ \E tours \in [1 .. b -> EntryTours] :
                td = [j \in 1 .. b |-> EnvState(env_name, j, tours[j], NoAction)]
    /\ cached_embeds = <<>>
    /\ outputs = <<>>
    /\ actions = <<>>
    /\ log_p = <<>>
    /\ mask = <<>>
    /\ action = <<>>
    /\ ret = <<>>
    /\ td_entry = td
    /\ trace = <<>>

(***************************************************************************)
(* forward, one action per statement group.                                *)
(***************************************************************************)
\* lines 70-73: the assert fails
AssertFails ==
    /\ pc = "assert"
    /\ ~AssertOk(decode_type, num_starts)
    /\ pc' = "raised"
    /\ UNCHANGED <<args, td, cached_embeds, outputs, actions, log_p, mask, action, ret,
                   trace>>

\* lines 70-80: the assert passes, the cache is computed, the lists are empty
PrecomputeStep ==
    /\ pc = "assert"
    /\ AssertOk(decode_type, num_starts)
    /\ cached_embeds' = <<Precompute(embeddings, num_starts)>>
    /\ outputs' = <<>>
    /\ actions' = <<>>
    /\ trace' = Append(trace, Call("precompute", <<>>))
    /\ pc' = "branch"
    /\ UNCHANGED <<args, td, log_p, mask, action, ret>>

\* lines 83-89 without line 87: td is not expanded
SeedExpandNoBatchify ==
    /\ pc = "branch"
    /\ SeedCond(decode_type, num_starts)
    /\ action' = SelectStartNodes(td, num_starts)
    /\ td' = [i \in DOMAIN td |-> [td[i] EXCEPT !.action = action'[i]]]
    /\ trace' = trace \o <<Call("select_start_nodes", action'), Call("set_action", <<>>)>>
    /\ pc' = "seed_step"
    /\ UNCHANGED <<args, cached_embeds, outputs, actions, log_p, mask, ret>>

\* lines 83-89 with lines 84 and 87 swapped: the start nodes are selected
\* for the expanded batch
SeedExpandSelectAfter ==
    /\ pc = "branch"
    /\ SeedCond(decode_type, num_starts)
    /\ action' = SelectStartNodes(Batchify(td, num_starts), num_starts)
    /\ td' = SetAction(Batchify(td, num_starts), action')
    /\ trace' = trace \o <<Call("select_start_nodes", action'), Call("set_action", <<>>)>>
    /\ pc' = "seed_step"
    /\ UNCHANGED <<args, cached_embeds, outputs, actions, log_p, mask, ret>>

\* lines 83-89: the start nodes are selected, td is expanded, the action set
SeedExpand ==
    /\ pc = "branch"
    /\ SeedCond(decode_type, num_starts)
    /\ action' = SelectStartNodes(td, num_starts)
    /\ td' = SetAction(Batchify(td, num_starts), action')
    /\ trace' = trace \o <<Call("select_start_nodes", action'), Call("set_action", <<>>)>>
    /\ pc' = "seed_step"
    /\ UNCHANGED <<args, cached_embeds, outputs, actions, log_p, mask, ret>>

\* lines 90-95 without line 96: the seed action is not recorded
SeedStepNoRecord ==
    /\ pc = "seed_step"
    /\ td' = EnvStep(env_name, td)
    /\ log_p' = ZerosLike(td')
    /\ outputs' = Append(outputs, log_p')
    /\ trace' = Append(trace, Call("step", <<>>))
    /\ pc' = "while"
    /\ UNCHANGED <<args, cached_embeds, actions, mask, action, ret>>

\* lines 90-96: the seed transition, the zero log_p, the first trace entry
SeedStep ==
    /\ pc = "seed_step"
    /\ td' = EnvStep(env_name, td)
    /\ log_p' = ZerosLike(td')
    /\ outputs' = Append(outputs, log_p')
    /\ actions' = Append(actions, action)
    /\ trace' = Append(trace, Call("step", <<>>))
    /\ pc' = "while"
    /\ UNCHANGED <<args, cached_embeds, mask, action, ret>>

\* line 83: the condition is false
SeedSkip ==
    /\ pc = "branch"
    /\ ~SeedCond(decode_type, num_starts)
    /\ pc' = "while"
    /\ UNCHANGED <<args, td, cached_embeds, outputs, actions, log_p, mask, action, ret,
                   trace>>

\* the loop condition written with any(): the loop stops at the first done
LoopCondAny(t) == ~(\E i \in DOMAIN t : t[i].done)

\* the loop condition with a limit of two iterations
LoopCondStepLimit(t) ==
    /\ ~All([i \in DOMAIN t |-> t[i].done])
    /\ Cardinality({x \in DOMAIN trace : trace[x].op = "iteration"}) < 2

\* the loop condition of line 99
LoopCond(t) == ~All([i \in DOMAIN t |-> t[i].done])

\* lines 99-100 with the dynamic key added into the cached key in place
WhileGetLogPInPlace ==
    /\ pc = "while"
    /\ LoopCond(td)
    /\ Len(outputs) < MaxSteps
    /\ LET r == GetLogP(cached_embeds[1], td, num_starts)
       IN  /\ log_p' = r[1]
           /\ mask' = r[2]
    /\ cached_embeds' =
          <<[cached_embeds[1] EXCEPT
                !.glimpse_key = [j \in DOMAIN @ |-> <<"sum", @[j], "dynamic">>]]>>
    /\ trace' = Append(trace, Call("get_log_p", <<>>))
    /\ pc' = "decode"
    /\ UNCHANGED <<args, td, outputs, actions, action, ret>>

\* lines 99-100: the loop is entered, _get_log_p returns log_p and mask
WhileGetLogP ==
    /\ pc = "while"
    /\ LoopCond(td)
    /\ Len(outputs) < MaxSteps
    /\ LET r == GetLogP(cached_embeds[1], td, num_starts)
       IN  /\ log_p' = r[1]
           /\ mask' = r[2]
    /\ trace' = Append(trace, Call("get_log_p", <<>>))
    /\ pc' = "decode"
    /\ UNCHANGED <<args, td, cached_embeds, outputs, actions, action, ret>>

\* lines 99-100: the loop is entered and logit_attention raises inside
\* _get_log_p (line 168); forward has no handler, the exception leaves
\* forward before log_p and mask are assigned
GetLogPRaises ==
    /\ pc = "while"
    /\ LoopCond(td)
    /\ Len(outputs) < MaxSteps
    /\ LET r == GetLogP(cached_embeds[1], td, num_starts)
       IN  MayRaise(r[1], r[2])
    /\ trace' = Append(trace, Call("get_log_p", <<>>))
    /\ pc' = "raised"
    /\ UNCHANGED <<args, td, cached_embeds, outputs, actions, log_p, mask, action, ret>>

\* the recorded steps in which the policy returned a masked node
Unchecked ==
    Cardinality({t \in DOMAIN actions :
                    \E i \in DOMAIN actions[t] :
                        outputs[t][i].val[actions[t][i]] = "neginf"})

\* line 103: decode_probs returns an action for every trajectory
Decode ==
    /\ pc = "decode"
    /\ MayRaise(log_p, mask) => Unchecked < MaxUnchecked
    /\ \E a \in DecodeProbs(log_p, mask) : action' = a
    /\ trace' = Append(trace, Call("decode_probs", action'))
    /\ pc' = "set"
    /\ UNCHANGED <<args, td, cached_embeds, outputs, actions, log_p, mask, ret>>

\* line 103 with a handler: the error is caught and node 0 is chosen
\* for every trajectory
DecodeFallback ==
    /\ pc = "decode"
    /\ MayRaise(log_p, mask)
    /\ action' = [i \in DOMAIN log_p |-> 0]
    /\ pc' = "set"
    /\ UNCHANGED <<args, td, cached_embeds, outputs, actions, log_p, mask, ret,
                   trace>>

\* line 103: decode_probs raises; forward has no handler, the exception
\* leaves forward
DecodeRaises ==
    /\ pc = "decode"
    /\ MayRaise(log_p, mask)
    /\ pc' = "raised"
    /\ UNCHANGED <<args, td, cached_embeds, outputs, actions, log_p, mask, action, ret,
                   trace>>

\* line 105: td.set("action", action)
SetActionStep ==
    /\ pc = "set"
    /\ td' = SetAction(td, action)
    /\ trace' = Append(trace, Call("set_action", <<>>))
    /\ pc' = "step"
    /\ UNCHANGED <<args, cached_embeds, outputs, actions, log_p, mask, action, ret>>

\* line 106 without the rebinding: the successor state is dropped
EnvStepDropped ==
    /\ pc = "step"
    /\ trace' = Append(trace, Call("step", <<>>))
    /\ pc' = "collect"
    /\ UNCHANGED <<args, td, cached_embeds, outputs, actions, log_p, mask, action, ret>>

\* line 106 twice: two transitions in one iteration
EnvStepTwice ==
    /\ pc = "step"
    /\ td' = EnvStep(env_name, EnvStep(env_name, td))
    /\ trace' = trace \o <<Call("step", <<>>), Call("step", <<>>)>>
    /\ pc' = "collect"
    /\ UNCHANGED <<args, cached_embeds, outputs, actions, log_p, mask, action, ret>>

\* line 106: td = self.env.step(td)["next"]
EnvStepStep ==
    /\ pc = "step"
    /\ td' = EnvStep(env_name, td)
    /\ trace' = Append(trace, Call("step", <<>>))
    /\ pc' = "collect"
    /\ UNCHANGED <<args, cached_embeds, outputs, actions, log_p, mask, action, ret>>

\* lines 109-110 with insert(0, ...): the step is recorded in front
CollectInFront ==
    /\ pc = "collect"
    /\ outputs' = <<log_p>> \o outputs
    /\ actions' = <<action>> \o actions
    /\ trace' = Append(trace, Call("iteration", <<>>))
    /\ pc' = "while"
    /\ UNCHANGED <<args, td, cached_embeds, log_p, mask, action, ret>>

\* line 110 without line 109: only the action is recorded
CollectActionsOnly ==
    /\ pc = "collect"
    /\ actions' = Append(actions, action)
    /\ trace' = Append(trace, Call("iteration", <<>>))
    /\ pc' = "while"
    /\ UNCHANGED <<args, td, cached_embeds, outputs, log_p, mask, action, ret>>

\* lines 109-110: the step is recorded
Collect ==
    /\ pc = "collect"
    /\ outputs' = Append(outputs, log_p)
    /\ actions' = Append(actions, action)
    /\ trace' = Append(trace, Call("iteration", <<>>))
    /\ pc' = "while"
    /\ UNCHANGED <<args, td, cached_embeds, log_p, mask, action, ret>>

\* lines 99 and 112: the loop ends and the lists are stacked
WhileExitStack ==
    /\ pc = "while"
    /\ ~LoopCond(td)
    /\ outputs # <<>>
    /\ ret' = <<[outputs |-> Stack(outputs), actions |-> Stack(actions)]>>
    /\ pc' = "reward"
    /\ UNCHANGED <<args, td, cached_embeds, outputs, actions, log_p, mask, action, trace>>

\* lines 99 and 112 with a stack that accepts an empty list
StackEmptyReturns ==
    /\ pc = "while"
    /\ ~LoopCond(td)
    /\ outputs = <<>>
    /\ ret' = <<[outputs |-> <<>>, actions |-> <<>>]>>
    /\ pc' = "reward"
    /\ UNCHANGED <<args, td, cached_embeds, outputs, actions, log_p, mask, action, trace>>

\* lines 99 and 112: the loop ends with nothing recorded, torch.stack raises
WhileExitStackRaises ==
    /\ pc = "while"
    /\ ~LoopCond(td)
    /\ outputs = <<>>
    /\ pc' = "raised"
    /\ UNCHANGED <<args, td, cached_embeds, outputs, actions, log_p, mask, action, ret,
                   trace>>

\* lines 113-116 with calc_reward: the reward is set, forward returns
RewardReturn ==
    /\ pc = "reward"
    /\ calc_reward
    /\ td' = SetReward(td, GetReward(td, ret[1].actions))
    /\ trace' = Append(trace, Call("get_reward", <<>>))
    /\ pc' = "returned"
    /\ UNCHANGED <<args, cached_embeds, outputs, actions, log_p, mask, action, ret>>

\* lines 113-116 with the reward computed whatever calc_reward is
ReturnWithReward ==
    /\ pc = "reward"
    /\ ~calc_reward
    /\ td' = SetReward(td, GetReward(td, ret[1].actions))
    /\ trace' = Append(trace, Call("get_reward", <<>>))
    /\ pc' = "returned"
    /\ UNCHANGED <<args, cached_embeds, outputs, actions, log_p, mask, action, ret>>

\* lines 113-116 without calc_reward: forward returns
Return ==
    /\ pc = "reward"
    /\ ~calc_reward
    /\ pc' = "returned"
    /\ UNCHANGED <<args, td, cached_embeds, outputs, actions, log_p, mask, action, ret,
                   trace>>

Next ==
    \/ AssertFails
    \/ PrecomputeStep
    \/ SeedExpand
    \/ SeedStep
    \/ SeedSkip
    \/ WhileGetLogP
    \/ Decode
    \/ DecodeRaises
    \/ GetLogPRaises
    \/ SetActionStep
    \/ EnvStepStep
    \/ Collect
    \/ WhileExitStack
    \/ WhileExitStackRaises
    \/ RewardReturn
    \/ Return

Spec == Init /\ [][Next]_vars

\* forward is one synchronous call: whenever a step is possible it is taken
FairSpec == Spec /\ WF_vars(Next)

(***************************************************************************)
(* Quantities the properties speak of.                                     *)
(***************************************************************************)
\* the original batch size
BatchSize == Len(embeddings)

\* how often op occurs in the history
Count(op) == Cardinality({x \in DOMAIN trace : trace[x].op = op})

\* loop iterations completed
Iterations == Count("iteration")

\* the state was passed as the environment's reset produces it
Fresh == \A j \in DOMAIN td_entry : td_entry[j].visited = {}

\* the state as passed: nothing of it has been touched
Untouched == td = td_entry

\* forward has returned, or is about to (the loop is over, the trace stacked)
LoopLeftNormally == pc \in {"reward", "returned"}

\* the positions inside the main loop
LoopPcs == {"while", "decode", "set", "step", "collect"}

(***************************************************************************)
(* C1: a decode_type containing "multistart" with num_starts <= 1 (None,   *)
(* 0 or 1) fails before anything else happens: nothing is precomputed, no  *)
(* start node is selected, the state is neither expanded nor written, no   *)
(* transition is requested.                                                *)
(***************************************************************************)
C1_MultistartNeedsStarts ==
    (HasMultistart(decode_type) /\ num_starts <= 1) =>
        /\ pc \in {"assert", "raised"}
        /\ trace = <<>>
        /\ cached_embeds = <<>>
        /\ Untouched
        /\ outputs = <<>> /\ actions = <<>> /\ action = <<>>

C1_Witness ==
    /\ pc = "raised"
    /\ decode_type = "multistart_greedy"
    /\ num_starts_arg = <<1>>

(***************************************************************************)
(* C2: the loop is left only with every trajectory done, or by an error:   *)
(* from a position inside the loop forward goes on to stacking only when   *)
(* every trajectory of the (expanded) batch is done, and once the loop is  *)
(* left normally every done flag of the state is true.                     *)
(***************************************************************************)
C2_ExitOnlyWhenAllDone ==
    [][/\ (pc \in LoopPcs /\ pc' \notin LoopPcs) =>
             \/ pc' = "raised"
             \/ pc' = "reward" /\ \A i \in DOMAIN td' : td'[i].done
       /\ LoopLeftNormally' => \A i \in DOMAIN td' : td'[i].done]_vars

\* a return after a decode in which one instance was done before the other
C2_Witness ==
    /\ pc = "returned"
    /\ Len(td) >= 2
    /\ Iterations >= 2
    /\ \E i \in DOMAIN td : actions[Len(actions)][i] = 0

(***************************************************************************)
(* C3: in the toy environment, entered fresh and without multi-start, the  *)
(* decode never raises, runs exactly 3 loop iterations, and every          *)
(* trajectory's recorded actions are a permutation of {0,1,2} beginning    *)
(* with 0.                                                                 *)
(***************************************************************************)
C3_ToyThreeSteps ==
    (env_name = "toy" /\ Fresh /\ ~SeedCond(decode_type, num_starts)) =>
        /\ pc # "raised"
        /\ Iterations <= 3
        /\ LoopLeftNormally =>
              /\ Iterations = 3
              /\ Len(actions) = 3
              /\ \A i \in DOMAIN td :
                    /\ ret[1].actions[i][1] = 0
                    /\ {ret[1].actions[i][t] : t \in 1 .. 3} = {0, 1, 2}
                    /\ Len(ret[1].actions[i]) = 3

C3_Witness ==
    /\ env_name = "toy" /\ Fresh /\ num_starts_arg = <<>>
    /\ decode_type = "greedy"
    /\ pc = "returned"
    /\ ret[1].actions[1] = <<0, 2, 1>>

(***************************************************************************)
(* C4: in the toy environment, entered fresh, with num_starts = 3, the 3   *)
(* rollouts of every instance begin at 3 distinct nodes of {0,1,2}, the    *)
(* decode never raises, and on return every rollout is done with all       *)
(* nodes visited.                                                          *)
(***************************************************************************)
\* the flat indices of the rollouts of instance j
RolloutsOf(j) == {i \in DOMAIN td : td[i].inst = j}

C4_ToyMultistart ==
    (env_name = "toy" /\ Fresh /\ num_starts = 3) =>
        /\ pc # "raised"
        /\ pc \notin {"assert", "branch", "seed_step"} =>
              /\ Len(actions) >= 1
              /\ \A j \in 1 .. BatchSize :
                    /\ Cardinality(RolloutsOf(j)) = 3
                    /\ {actions[1][i] : i \in RolloutsOf(j)} = {0, 1, 2}
              /\ \A i \in DOMAIN td : actions[1][i] \in td[i].visited
              /\ (pc = "while" /\ Iterations = 0) =>
                    \A i \in DOMAIN td : td[i].visited = {actions[1][i]}
        /\ LoopLeftNormally =>
              \A i \in DOMAIN td :
                 /\ td[i].done
                 /\ td[i].visited = Nodes
                 /\ {ret[1].actions[i][t] : t \in DOMAIN ret[1].actions[i]} = Nodes

C4_Witness ==
    /\ env_name = "toy" /\ Fresh /\ num_starts = 3
    /\ BatchSize = 2
    /\ pc = "returned"
    /\ ret[1].actions[3] = <<1, 0, 2>>
    /\ ret[1].actions[6] = <<2, 0, 1>>

(***************************************************************************)
(* C5: from the return of _get_log_p until the environment transition,     *)
(* the mask has one row per trajectory of the state and mask[i][n] is the  *)
(* negation of the action_mask of trajectory i at node n, with and         *)
(* without expansion.                                                      *)
(***************************************************************************)
C5_MaskIsNegatedActionMask ==
    pc \in {"decode", "set", "step"} =>
        /\ Len(mask) = Len(td)
        /\ \A i \in DOMAIN td : \A n \in Nodes :
              mask[i][n] = ~td[i].action_mask[n]

\* an expanded batch whose trajectories have different masks
C5_Witness ==
    /\ pc = "decode"
    /\ num_starts > 1
    /\ BatchSize = 2
    /\ \E i, j \in DOMAIN td : mask[i] # mask[j]

(***************************************************************************)
(* C6: the cache is computed once, as the first call of forward, and no    *)
(* later step changes it: once set it keeps its value, and _precompute     *)
(* is never called again.                                                  *)
(***************************************************************************)
PrecomputeCalls == Count("precompute")

C6_CacheComputedOnce ==
    [][/\ cached_embeds # <<>> => cached_embeds' = cached_embeds
       /\ trace' # <<>> =>
             /\ trace'[1].op = "precompute"
             /\ PrecomputeCalls' = 1
             /\ cached_embeds' # <<>>
       /\ trace' = <<>> => cached_embeds' = <<>>]_vars

\* the cache after a seeding step, a _get_log_p call and a transition
C6_Witness ==
    /\ pc = "collect"
    /\ num_starts > 1
    /\ Iterations >= 1
    /\ cached_embeds = <<Precompute(embeddings, num_starts)>>

(***************************************************************************)
(* C7: on return the step axis of the stacked log-probabilities and of     *)
(* the stacked actions has one entry per loop iteration, plus one for the  *)
(* seeding step when num_starts > 1, and the stacked actions are, in step  *)
(* order, the seed action (if any) and then the actions selected in the    *)
(* loop.                                                                   *)
(***************************************************************************)
IsSelection(e) == e.op \in {"select_start_nodes", "decode_probs"}

IsLoopSelection(e) == e.op = "decode_probs"

\* the values of a sequence of history entries
Values(es) == [t \in DOMAIN es |-> es[t].val]

\* the action tensors selected so far, in order
Selected == Values(SelectSeq(trace, IsSelection))

\* the action tensors selected in the main loop so far, in order
LoopSelected == Values(SelectSeq(trace, IsLoopSelection))

Seeds == Count("select_start_nodes")

C7_StackedTrajectory ==
    LoopLeftNormally =>
        /\ Seeds = (IF num_starts > 1 THEN 1 ELSE 0)
        /\ Len(Selected) = Iterations + Seeds
        /\ DOMAIN ret[1].actions = DOMAIN td
        /\ DOMAIN ret[1].outputs = DOMAIN td
        /\ \A i \in DOMAIN td :
              /\ Len(ret[1].actions[i]) = Iterations + Seeds
              /\ Len(ret[1].outputs[i]) = Iterations + Seeds
              /\ \A t \in 1 .. (Iterations + Seeds) :
                    ret[1].actions[i][t] = Selected[t][i]

\* the claim as stated: the length is the number of loop iterations
C7_LengthIsIterations ==
    LoopLeftNormally =>
        \A i \in DOMAIN td :
           /\ Len(ret[1].actions[i]) = Iterations
           /\ Len(ret[1].outputs[i]) = Iterations
           /\ ret[1].actions[i] = [t \in 1 .. Iterations |-> LoopSelected[t][i]]

C7_Witness ==
    /\ pc = "returned"
    /\ num_starts = 2
    /\ Iterations = 2
    /\ Len(ret[1].actions[1]) = 3

(***************************************************************************)
(* C8: with num_starts 0 or 1 the state, log_p and mask have BatchSize     *)
(* trajectories at every step; with num_starts = k > 1 the state has       *)
(* k * BatchSize trajectories from the seeding step on, and so have log_p, *)
(* mask and action, at every step.                                         *)
(***************************************************************************)
WorkingBatch ==
    IF num_starts > 1 /\ pc \notin {"assert", "branch"}
    THEN num_starts * BatchSize
    ELSE BatchSize

C8_BatchSizeFixed ==
    /\ Len(td) = WorkingBatch
    /\ log_p # <<>> => Len(log_p) = WorkingBatch
    /\ mask # <<>> => Len(mask) = WorkingBatch
    /\ action # <<>> => Len(action) = WorkingBatch
    /\ \A t \in DOMAIN outputs : Len(outputs[t]) = WorkingBatch
    /\ \A t \in DOMAIN actions : Len(actions[t]) = WorkingBatch

C8_Witness ==
    /\ pc = "collect"
    /\ num_starts = 2
    /\ BatchSize = 2
    /\ Iterations >= 1
    /\ Len(td) = 4
    /\ Len(mask) = 4

(***************************************************************************)
(* C9: with num_starts > 1, row i of log_p and of mask is the row of the   *)
(* trajectory at index i of the expanded state: the fold is the inverse    *)
(* of the unbatchify view, the layout is starts-major, and the action      *)
(* selected at index i is set in trajectory i and, where trajectory i has  *)
(* a legal node at all, legal for it.                                      *)
(***************************************************************************)
\* trajectory i has a node the policy can select
HasSelectable(i) == Selectable(log_p[i], mask[i]) # {}

WithoutAction(t) == [i \in DOMAIN t |-> [t[i] EXCEPT !.action = NoAction]]

\* the state without the action and the reward fields
WithoutActionReward(t) ==
    [i \in DOMAIN t |-> [t[i] EXCEPT !.action = NoAction, !.reward = <<>>]]

\* this step is the environment's transition
IsEnvTransition == pc \in {"seed_step", "step"}

C10_DecoderWritesActionAndReward ==
    [][/\ ~IsEnvTransition =>
             WithoutActionReward(td') =
                IF pc = "branch" /\ pc' = "seed_step"
                THEN Batchify(WithoutActionReward(td), num_starts)
                ELSE WithoutActionReward(td)
       /\ (\E i \in DOMAIN td : td'[i].reward # td[i].reward) =>
             /\ pc = "reward" /\ calc_reward
             /\ \A i \in DOMAIN td : td[i].done
       /\ pc = "while" => td' = td]_vars

\* the claim as stated: every field but action changes only in env.step
C10_OnlyActionWritten ==
    [][/\ ~IsEnvTransition =>
             WithoutAction(td') =
                IF pc = "branch" /\ pc' = "seed_step"
                THEN Batchify(WithoutAction(td), num_starts)
                ELSE WithoutAction(td)
       /\ pc = "while" => td' = td]_vars

\* a return with the reward attached after a multi-start decode
C10_Witness ==
    /\ pc = "returned"
    /\ calc_reward
    /\ num_starts > 1
    /\ \A i \in DOMAIN td : td[i].reward # <<>> /\ td[i].action # NoAction

(***************************************************************************)
(* C11: when the mask handed to the policy forbids every node of a         *)
(* trajectory that is not done, the decoder neither checks nor chooses an  *)
(* action of its own.  Either scoring (line 100) or selection (line 103)   *)
(* raises and the error leaves forward with no action selected or written, *)
(* no transition applied and nothing recorded for that step, a raise of    *)
(* line 100 also before log_p and mask are assigned; or the policy         *)
(* returns, and                                                            *)
(* the action written and applied is exactly the one the policy returned   *)
(* in that iteration.                                                      *)
(***************************************************************************)
\* trajectory i is not done and its row of the mask forbids every node
Infeasible(i) == ~td[i].done /\ \A n \in Nodes : mask[i][n]

\* the last entry of the history is the policy's return of a
PolicyReturned(a) ==
    /\ trace # <<>>
    /\ trace[Len(trace)].op = "decode_probs"
    /\ trace[Len(trace)].val = a

\* trajectory i is not done and the environment leaves it no legal node
Stuck(i) == ~td[i].done /\ \A n \in Nodes : ~td[i].action_mask[n]

Accepted == trace # <<>>

\* the seeding step is over
Seeded == Accepted /\ pc \notin {"assert", "branch", "seed_step"}

C12_SeedExactlyWhenStarts ==
    Accepted =>
        /\ SeedCond(decode_type, num_starts) <=> num_starts > 1
        /\ Count("select_start_nodes") <= 1
        /\ pc # "branch" =>
              Count("select_start_nodes") = (IF num_starts > 1 THEN 1 ELSE 0)
        /\ \A x \in DOMAIN trace :
              trace[x].op = "select_start_nodes" =>
                 /\ x = 2
                 /\ trace[1].op = "precompute"
                 /\ trace[3].op = "set_action"
                 /\ Len(trace) >= 4 => trace[4].op = "step"
        /\ (Seeded /\ num_starts > 1) =>
              /\ Len(outputs) >= 1 /\ Len(actions) >= 1
              /\ actions[1] = trace[2].val
              /\ Len(actions[1]) = Len(td) /\ Len(outputs[1]) = Len(td)
              /\ \A i \in DOMAIN td :
                    /\ \A n \in Nodes : outputs[1][i].val[n] = "zero"
                    /\ actions[1][i] \in td[i].visited
        /\ (Seeded /\ num_starts <= 1) =>
              \A t \in DOMAIN outputs : \A i \in DOMAIN td :
                 \E n \in Nodes : outputs[t][i].val[n] # "zero"

\* a seeded decode requested by num_starts alone, two iterations later
C12_Witness ==
    /\ decode_type = "sampling"
    /\ num_starts = 2
    /\ pc = "while"
    /\ Iterations = 2
    /\ Len(outputs) = 3

(***************************************************************************)
(* C13: the steps are serialized.  The calls of an iteration come in the   *)
(* order _get_log_p, decode_probs, td.set, env.step, with exactly one      *)
(* env.step; a mask is computed only after the transition of the step      *)
(* before (or the seed transition, or at the start), and the transition    *)
(* applies the action selected from the mask of the state it steps (an     *)
(* unmasked one wherever that mask leaves a node).                         *)
(***************************************************************************)
\* the call before entry x of the history
Before(x) == IF x = 1 THEN "none" ELSE trace[x - 1].op

\* the calls that may come right before a call
MayPrecede(op) ==
    CASE op = "precompute"         -> {"none"}
      [] op = "select_start_nodes" -> {"precompute"}
      [] op = "get_log_p"          -> {"precompute", "step", "iteration"}
      [] op = "decode_probs"       -> {"get_log_p"}
      [] op = "set_action"         -> {"decode_probs", "select_start_nodes"}
      [] op = "step"               -> {"set_action"}
      [] op = "iteration"          -> {"step"}
      [] op = "get_reward"         -> {"step", "iteration"}

C14_StartsDistinct ==
    (Seeded /\ num_starts > 1 /\ num_starts <= NumNodes) =>
        /\ Len(actions) >= 1
        /\ \A j \in 1 .. BatchSize :
              /\ Cardinality(RolloutsOf(j)) = num_starts
              /\ \A i1, i2 \in RolloutsOf(j) :
                    i1 # i2 => actions[1][i1] # actions[1][i2]

\* two instances entered at different tours, two rollouts each
C14_Witness ==
    /\ Seeded
    /\ num_starts = 2
    /\ BatchSize = 2
    /\ td_entry[1].visited # td_entry[2].visited
    /\ actions[1] = <<0, 0, 1, 1>>

(***************************************************************************)
(* C15: an iteration steps the whole batch: decode_probs returns one       *)
(* action (a node) for every trajectory of the state, done or not; every   *)
(* one is written to its trajectory, applied by the one transition, and    *)
(* recorded.  An iteration that cannot do so raises and steps nobody.      *)
(***************************************************************************)
C15_WholeBatchStepped ==
    [][/\ (pc = "decode" /\ pc' = "set") =>
             /\ Len(action') = Len(td)
             /\ \A i \in DOMAIN td : action'[i] \in Nodes
       /\ (pc = "decode" /\ pc' # "set") => (pc' = "raised" /\ td' = td)
       /\ (pc = "set" /\ pc' = "step") =>
             /\ Len(td') = Len(td)
             /\ \A i \in DOMAIN td : td'[i].action = action[i]
       /\ (pc = "step" /\ pc' = "collect") =>
             /\ Len(td') = Len(td)
             /\ \A i \in DOMAIN td :
                   /\ td[i].action = action[i]
                   /\ td'[i].visited = td[i].visited \cup {action[i]}
       /\ (pc = "collect" /\ pc' = "while") =>
             /\ actions' = Append(actions, action)
             /\ Len(action) = Len(td)]_vars

\* an iteration that has stepped a trajectory that was done before it,
\* together with one that was not
C15_Witness ==
    /\ pc = "collect"
    /\ env_name = "toy_depot"
    /\ \E i, j \in DOMAIN td :
          /\ log_p[i].tour = Nodes
          /\ log_p[j].tour # Nodes
          /\ td[i].action = 0
          /\ td[j].action # 0

(***************************************************************************)
(* C16: get_reward is called at most once, exactly when forward returns    *)
(* with calc_reward true, as the last call, with every trajectory done;    *)
(* the reward is computed from the final state and the full stacked        *)
(* actions (the seed action included).  Without calc_reward it is never    *)
(* called and no reward field is written.                                  *)
(***************************************************************************)
RewardCalls == Count("get_reward")

C16_RewardOnceAtEnd ==
    /\ RewardCalls <= 1
    /\ RewardCalls = 1 <=> (pc = "returned" /\ calc_reward)
    /\ RewardCalls = 1 =>
          /\ trace[Len(trace)].op = "get_reward"
          /\ Count("step") = Len(Selected)
          /\ \A i \in DOMAIN td :
                /\ td[i].done
                /\ td[i].reward = << <<td[i].visited, ret[1].actions[i]>> >>
                /\ ret[1].actions[i] = [t \in 1 .. Len(Selected) |-> Selected[t][i]]
    /\ RewardCalls = 0 => \A i \in DOMAIN td : td[i].reward = <<>>

\* the reward of a seeded decode
C16_Witness ==
    /\ pc = "returned"
    /\ calc_reward
    /\ num_starts = 3
    /\ td[2].reward = << <<Nodes, <<1, 0, 2>> >> >>

(***************************************************************************)
(* C17: whenever the loop condition is evaluated, and when forward         *)
(* returns, outputs and actions have the same length, the number of        *)
(* transitions applied so far (the seed transition, if any, plus one per   *)
(* completed iteration); both lists only grow at the end.                  *)
(***************************************************************************)
\* environment transitions applied so far
Transitions == Count("step")

\* s is t, or t without some last entries
IsPrefix(s, t) == Len(s) <= Len(t) /\ \A x \in DOMAIN s : s[x] = t[x]

\* the points between two iterations, and after the loop
AtLoopCondition == pc \in {"while", "reward", "returned"}

C17_ListsFollowTransitions ==
    [][/\ AtLoopCondition' =>
             /\ Len(outputs') = Len(actions')
             /\ Len(outputs') = Transitions'
             /\ Transitions' = Iterations' + Seeds'
       /\ IsPrefix(outputs, outputs')
       /\ IsPrefix(actions, actions')]_vars

\* the claim as stated: at every point of the call
C17_ListsFollowTransitionsEverywhere ==
    /\ Len(outputs) = Len(actions)
    /\ Len(outputs) = Transitions

C17_Witness ==
    /\ pc = "while"
    /\ num_starts = 3
    /\ Transitions = 3
    /\ Len(outputs) = 3 /\ Len(actions) = 3

(***************************************************************************)
(* C18: forward never returns an empty trace.  Entered with every          *)
(* trajectory done and without seeding, the loop runs no iteration and     *)
(* torch.stack raises: nothing is stacked, no reward is computed.          *)
(* Whenever forward gets past torch.stack, every trajectory has at least   *)
(* one step.                                                               *)
(***************************************************************************)
AllDoneOnEntry == \A j \in DOMAIN td_entry : td_entry[j].done

C18_NoEmptyTrace ==
    /\ (Accepted /\ AllDoneOnEntry /\ ~SeedCond(decode_type, num_starts)) =>
          /\ pc \in {"branch", "while", "raised"}
          /\ Len(trace) = 1
          /\ Iterations = 0
          /\ RewardCalls = 0
          /\ ret = <<>>
          /\ td = td_entry
    /\ LoopLeftNormally =>
          /\ ret # <<>>
          /\ DOMAIN ret[1].actions = DOMAIN td
          /\ DOMAIN ret[1].outputs = DOMAIN td
          /\ \A i \in DOMAIN td :
                Len(ret[1].actions[i]) >= 1 /\ Len(ret[1].outputs[i]) >= 1

\* torch.stack has raised on the empty lists
C18_Witness ==
    /\ pc = "raised"
    /\ Accepted
    /\ AllDoneOnEntry
    /\ BatchSize = 2
    /\ calc_reward
    /\ outputs = <<>>

(***************************************************************************)
(* C19: with an environment in which every trajectory becomes done after   *)
(* finitely many transitions and stays done, and a policy that always      *)
(* returns, the loop ends and forward returns, unless nothing was recorded *)
(* (every trajectory done on entry, no seeding), in which case torch.stack *)
(* raises.  The decoder has no step limit of its own: with an environment  *)
(* that never reports done the loop is never left, at every evaluation of  *)
(* line 99 the condition is true.                                          *)
(***************************************************************************)
\* every trajectory becomes done after finitely many transitions
EnvTerminates == env_name # "toy_endless"

\* the environment has left a trajectory that is not done without a legal
\* node: it does not make every trajectory done
DeadEnd ==
    \E i \in DOMAIN td : ~td[i].done /\ \A n \in Nodes : ~td[i].action_mask[n]

\* scoring or selection has raised (lines 100-103)
PolicyRaised ==
    /\ pc = "raised"
    /\ Accepted
    /\ trace[Len(trace)].op = "get_log_p"

\* torch.stack has raised at line 112
StackRaised ==
    /\ pc = "raised"
    /\ Accepted
    /\ trace[Len(trace)].op # "get_log_p"

====
